---- MODULE Spec2Model ----
(***************************************************************************)
(* Scheduling core of turbine_models/custom_models/sd_inference:           *)
(* get_scheduler / SCHEDULER_MAP, SchedulingModel (initialize,             *)
(* prepare_model_input, step), the two adapters SharkSchedulerWrapper and  *)
(* SharkSchedulerCPUWrapper (schedulers.py).                               *)
(*                                                                         *)
(* A tensor is modelled by its batch axis: a sequence with one integer per *)
(* batch entry (the channel and spatial axes are uniform in every          *)
(* operation of this code).  Python exceptions are outcomes of a call.     *)
(***************************************************************************)
EXTENDS Integers, Sequences, FiniteSets, TLC

\* ---------------------------------------------------------------- bounds
MaxSteps == 2
MaxBatch == 2

\* ---------------------------------------------------------------- inputs
UnknownIds == {"Unknown"}
Precisions == {"fp16", "fp32"}
Sizes == {<<512, 1024>>}
GuidanceScales == {0, 2}
Offsets == {0, 1}
NoiseOffsets == {0}
Adapters == {"compiled", "cpu"}

\* tensor of batch size m whose j-th batch entry is j + c
Tensor(m, c) == [j \in 1..m |-> j + c]
Latents == {Tensor(m, c) : m \in 1..MaxBatch, c \in Offsets}
\* arguments tried on an engine of batch size bs: the batch sizes the
\* configuration calls for (2 * bs, bs) and ones that disagree with it
NoisePreds(bs) == {Tensor(m, c) : m \in {2 * bs, 2 * bs - 1, bs, 1}, c \in NoiseOffsets}
StepSamples(bs) == {Tensor(m, 0) : m \in {bs, bs + 1}}
\* index arguments tried on an engine of n timesteps
PrepareIndexes(n) == (0 - n - 1)..n
StepIndexes(n) == (0 - 1)..n
TimestepArgs == {0}

\* ---------------------------------------------------------------- catalog
SCHEDULER_MAP ==
  [id \in {"PNDM", "DDPM", "KDPM2Discrete", "LMSDiscrete", "DDIM", "LCMScheduler",
           "EulerDiscrete", "EulerAncestralDiscrete", "DEISMultistep",
           "DPMSolverSinglestep", "KDPM2AncestralDiscrete", "HeunDiscrete",
           "DPMSolverMultistepKarras"} |->
     CASE id = "PNDM" -> "PNDMScheduler"
       [] id = "DDPM" -> "DDPMScheduler"
       [] id = "KDPM2Discrete" -> "KDPM2DiscreteScheduler"
       [] id = "LMSDiscrete" -> "LMSDiscreteScheduler"
       [] id = "DDIM" -> "DDIMScheduler"
       [] id = "LCMScheduler" -> "LCMScheduler"
       [] id = "EulerDiscrete" -> "EulerDiscreteScheduler"
       [] id = "EulerAncestralDiscrete" -> "EulerAncestralDiscreteScheduler"
       [] id = "DEISMultistep" -> "DEISMultistepScheduler"
       [] id = "DPMSolverSinglestep" -> "DPMSolverSinglestepScheduler"
       [] id = "KDPM2AncestralDiscrete" -> "KDPM2AncestralDiscreteScheduler"
       [] id = "HeunDiscrete" -> "HeunDiscreteScheduler"
       [] id = "DPMSolverMultistepKarras" -> "DPMSolverMultistepScheduler"]

SchedulerIds == DOMAIN SCHEDULER_MAP \cup UnknownIds

\* get_scheduler falls back to a default class for an unknown identifier
get_scheduler_default(scheduler_id) ==
  IF scheduler_id \in DOMAIN SCHEDULER_MAP
    THEN [outcome |-> "ok", scheduler |-> SCHEDULER_MAP[scheduler_id]]
    ELSE [outcome |-> "ok", scheduler |-> "DDIMScheduler"]

\* get_scheduler: the local `scheduler` is bound only inside the membership
\* test; `return scheduler` on an unbound local raises UnboundLocalError.
get_scheduler(scheduler_id) ==
  IF scheduler_id \in DOMAIN SCHEDULER_MAP
    THEN [outcome |-> "ok", scheduler |-> SCHEDULER_MAP[scheduler_id]]
    ELSE [outcome |-> "UnboundLocalError", scheduler |-> ""]

\* ---------------------------------------------------------------- tensors
\* indexing whose first position is 1
IndexInRangeFromOne(n, t) == 1 <= t /\ t <= n
\* python / torch indexing of a sequence of length n by an integer t
IndexInRange(n, t) == (0 - n) <= t /\ t < n
\* indexing that counts a non-negative index from the end
IndexValueFromEnd(s, t) == IF t >= 0 THEN s[Len(s) - t] ELSE s[Len(s) + t + 1]
IndexValue(s, t) == IF t >= 0 THEN s[t + 1] ELSE s[Len(s) + t + 1]

\* torch.cat([x] * 2)
Cat2(x) == x \o x

\* Tensor.chunk(2) along the batch axis: chunks of ceil(m / 2) entries
ChunkSize(x) == (Len(x) + 1) \div 2
Chunk(x) ==
  IF Len(x) <= ChunkSize(x)
    THEN <<x>>
    ELSE <<SubSeq(x, 1, ChunkSize(x)), SubSeq(x, ChunkSize(x) + 1, Len(x))>>

\* elementwise operations broadcast a batch axis of size 1
Broadcastable(x, y) == Len(x) = Len(y) \/ Len(x) = 1 \/ Len(y) = 1
BLen(x, y) == IF Len(x) >= Len(y) THEN Len(x) ELSE Len(y)
At(x, j) == IF Len(x) = 1 THEN x[1] ELSE x[j]
Sub(x, y) == [j \in 1..BLen(x, y) |-> At(x, j) - At(y, j)]
Add(x, y) == [j \in 1..BLen(x, y) |-> At(x, j) + At(y, j)]
Scale(k, x) == [j \in 1..Len(x) |-> k * x[j]]

\* ---------------------------------------------------------------- state
VARIABLES
  constructed,                  \* a SchedulingModel exists
  height, width, batch_size,    \* SchedulingModel fields
  do_classifier_free_guidance,
  dtype,
  adapter,                      \* which wrapper the caller holds
  num_inference_steps,          \* the constructor's argument
  timesteps,                    \* self.model.timesteps
  init_noise_sigma,             \* self.model.init_noise_sigma
  step_index_set,               \* self.model._step_index has been assigned
  step_index,                   \* self.model._step_index
  advances,                     \* 1 iff the algorithm's own step advances its index
  initialized,                  \* initialize has been called on this engine
  run_ok,                       \* every step since initialize succeeded, indices 0, 1, ...
  run_steps,                    \* number of those steps
  last,                         \* the last call: arguments, outcome, returned values
  model,                        \* self.model: which algorithm object the engine holds
  suspended,                    \* the caller's other sampling run, between its calls
  device, target_triple,        \* compile_to_vmfb: its locals
  ireec_flags, safe_name,
  flags

vars == <<constructed, height, width, batch_size, do_classifier_free_guidance, dtype,
          adapter, num_inference_steps, timesteps, init_noise_sigma, step_index_set,
          step_index, advances, initialized, run_ok, run_steps, last, model,
          suspended, device, target_triple, ireec_flags, safe_name, flags>>

config == <<height, width, batch_size, do_classifier_free_guidance, dtype, adapter,
            num_inference_steps, model>>
algorithm == <<timesteps, init_noise_sigma, step_index_set, step_index, advances>>
run == <<initialized, run_ok, run_steps>>
compile == <<device, target_triple, ireec_flags, safe_name, flags>>

\* a call record; alg_* are the arguments handed to the algorithm (self.model) and,
\* for step, the value of its _step_index as its own step is entered
NoCall ==
  [op |-> "none", outcome |-> "none", id |-> "", scheduler |-> "",
   sample |-> <<>>, noise_pred |-> <<>>,
   t |-> 0, guidance_scale |-> 0, i |-> 0, out_sample |-> <<>>, out_time_ids |-> <<>>,
   out_steps |-> 0, out_t |-> 0, out_batch |-> 0, out_dtype |-> "",
   alg_called |-> FALSE, alg_noise |-> <<>>, alg_sample |-> <<>>, alg_t |-> 0,
   alg_index |-> 0,
   device |-> "", target_triple |-> "", ireec_flags |-> <<>>]

\* ---------------------------------------------------------------- algorithm
\* set_timesteps(n): an ordered sequence of n timesteps (values n-1 .. 0) and the
\* initial noise sigma
set_timesteps(n) == [k \in 1..n |-> n - k]
InitNoiseSigma(n) == n + 1

\* the algorithm's own step, entered at index i, leaves the index at i or advances
\* it by one, as the algorithm constructed does
AlgStepIndex(i) == i + advances

\* outcomes of the algorithm's own step at index i: with i off the timestep
\* sequence the algorithm may or may not raise
AlgStepOutcomes(i) ==
  IF 0 <= i /\ i < Len(timesteps) THEN {"ok"} ELSE {"ok", "IndexError"}

\* ---------------------------------------------------------------- engine
\* SchedulingModel.initialize: add_time_ids
add_time_ids_row(h, w) == <<h, w, 0, 0, h, w>>
Repeat(rows, n) == [j \in 1..(n * Len(rows)) |-> rows[((j - 1) % Len(rows)) + 1]]
add_time_ids(h, w, cfg, bs) ==
  IF cfg THEN Repeat(Cat2(<<add_time_ids_row(h, w)>>), bs)
         ELSE <<add_time_ids_row(h, w)>>

\* the combination with the two halves exchanged
CombineSwapped(noise_preds, guidance_scale) ==
  Add(noise_preds[2], Scale(guidance_scale, Sub(noise_preds[1], noise_preds[2])))

\* SchedulingModel.step: noise_preds[0] + guidance_scale * (noise_preds[1] - noise_preds[0])
Combine(noise_preds, guidance_scale) ==
  Add(noise_preds[1], Scale(guidance_scale, Sub(noise_preds[2], noise_preds[1])))

\* a sampling run: the engine, the algorithm object it holds, the caller's record
ThisRun ==
  [constructed |-> constructed, height |-> height, width |-> width,
   batch_size |-> batch_size,
   do_classifier_free_guidance |-> do_classifier_free_guidance, dtype |-> dtype,
   adapter |-> adapter, num_inference_steps |-> num_inference_steps,
   timesteps |-> timesteps, init_noise_sigma |-> init_noise_sigma,
   step_index_set |-> step_index_set, step_index |-> step_index,
   advances |-> advances, initialized |-> initialized, run_ok |-> run_ok,
   run_steps |-> run_steps, last |-> last, model |-> model]

\* a run whose engine has not been constructed
NoRun ==
  [constructed |-> FALSE, height |-> 0, width |-> 0, batch_size |-> 0,
   do_classifier_free_guidance |-> TRUE, dtype |-> "", adapter |-> "",
   num_inference_steps |-> 0, timesteps |-> <<>>, init_noise_sigma |-> 0,
   step_index_set |-> FALSE, step_index |-> 0, advances |-> 0,
   initialized |-> FALSE, run_ok |-> FALSE, run_steps |-> 0, last |-> NoCall,
   model |-> 0]

\* the algorithm objects alive besides this engine's
Existing == {suspended.model} \ {0}

\* a lookup that hands out an algorithm object that is already in use
NewInstanceShared(existing) ==
  IF existing = {} THEN 1 ELSE CHOOSE k \in existing : TRUE

\* get_scheduler: SCHEDULER_MAP[scheduler_id].from_pretrained(...) makes a new
\* algorithm object on every call
NewInstance(existing) ==
  CHOOSE k \in 1..(Cardinality(existing) + 1) : k \notin existing

Init ==
  /\ constructed = FALSE
  /\ height = 0 /\ width = 0 /\ batch_size = 0
  /\ do_classifier_free_guidance = TRUE
  /\ dtype = ""
  /\ adapter = ""
  /\ num_inference_steps = 0
  /\ timesteps = <<>>
  /\ init_noise_sigma = 0
  /\ step_index_set = FALSE
  /\ step_index = 0
  /\ advances = 0
  /\ initialized = FALSE
  /\ run_ok = FALSE
  /\ run_steps = 0
  /\ last = NoCall
  /\ model = 0
  /\ suspended = NoRun
  /\ device = "" /\ target_triple = "" /\ ireec_flags = <<>> /\ safe_name = ""
  /\ flags = <<>>

\* export_scheduler_model: get_scheduler, then SchedulingModel.__init__
ExportSchedulerModel(scheduler_id, hw, bs, n, precision, adv, ad) ==
  /\ ~constructed
  /\ UNCHANGED <<suspended, compile>>
  /\ LET got == get_scheduler(scheduler_id) IN
     IF got.outcome # "ok"
       THEN /\ last' = [NoCall EXCEPT !.op = "export", !.outcome = got.outcome,
                                      !.id = scheduler_id,
                                      !.scheduler = got.scheduler]
            /\ UNCHANGED <<constructed, config, algorithm, run>>
       ELSE /\ constructed' = TRUE
            /\ height' = hw[1]
            /\ width' = hw[2]
            /\ batch_size' = bs
            /\ do_classifier_free_guidance' = TRUE
            /\ timesteps' = set_timesteps(n)
            /\ num_inference_steps' = n
            /\ init_noise_sigma' = InitNoiseSigma(n)
            /\ advances' = adv
            /\ step_index_set' = FALSE
            /\ step_index' = 0
            /\ dtype' = (IF precision = "fp16" THEN "float16" ELSE "float32")
            /\ adapter' = ad
            /\ model' = NewInstance(Existing)
            /\ initialized' = FALSE
            /\ run_ok' = FALSE
            /\ run_steps' = 0
            /\ last' = [NoCall EXCEPT !.op = "export", !.outcome = "ok",
                                      !.id = scheduler_id,
                                      !.scheduler = got.scheduler]

\* initialize that returns the sample as it came, without init_noise_sigma
InitializeResultUnscaled(sample) ==
  [NoCall EXCEPT
     !.op = "initialize", !.outcome = "ok", !.sample = sample,
     !.out_sample = sample,
     !.out_time_ids = add_time_ids(height, width, do_classifier_free_guidance,
                                   batch_size),
     !.out_steps = Len(timesteps),
     !.out_batch = Len(sample),
     !.out_dtype = dtype]

\* SchedulingModel.initialize: the returned (sample, add_time_ids, step_indexes)
InitializeResult(sample) ==
  [NoCall EXCEPT
     !.op = "initialize", !.outcome = "ok", !.sample = sample,
     !.out_sample = Scale(init_noise_sigma, sample),
     !.out_time_ids = add_time_ids(height, width, do_classifier_free_guidance,
                                   batch_size),
     !.out_steps = Len(timesteps),
     !.out_batch = Len(sample),
     !.out_dtype = dtype]

\* an initialize that also clears the algorithm's step index
InitializeResetting(sample) ==
  /\ constructed
  /\ adapter = "compiled"
  /\ last' = InitializeResult(sample)
  /\ initialized' = TRUE
  /\ run_ok' = TRUE
  /\ run_steps' = 0
  /\ step_index_set' = FALSE
  /\ step_index' = 0
  /\ UNCHANGED <<suspended, compile>>
  /\ UNCHANGED <<constructed, config, timesteps, init_noise_sigma, advances>>

\* SharkSchedulerWrapper.initialize -> run_initialize -> SchedulingModel.initialize
Initialize(sample) ==
  /\ constructed
  /\ adapter = "compiled"
  /\ last' = InitializeResult(sample)
  /\ initialized' = TRUE
  /\ run_ok' = TRUE
  /\ run_steps' = 0
  /\ UNCHANGED <<suspended, compile>>
  /\ UNCHANGED <<constructed, config, algorithm>>

\* SharkSchedulerWrapper.scale_model_input -> run_scale ->
\* SchedulingModel.prepare_model_input
PrepareModelInput(sample, t) ==
  /\ constructed
  /\ adapter = "compiled"
  /\ IF ~IndexInRange(Len(timesteps), t)
       THEN last' = [NoCall EXCEPT !.op = "prepare", !.outcome = "IndexError",
                                   !.sample = sample, !.i = t]
       ELSE last' = [NoCall EXCEPT
                       !.op = "prepare", !.outcome = "ok", !.sample = sample, !.i = t,
                       !.out_t = IndexValue(timesteps, t),
                       !.alg_called = TRUE,
                       !.alg_sample = (IF do_classifier_free_guidance
                                         THEN Cat2(sample) ELSE sample),
                       !.alg_t = IndexValue(timesteps, t),
                       !.out_batch = (IF do_classifier_free_guidance
                                        THEN 2 * Len(sample) ELSE Len(sample)),
                       !.out_dtype = dtype]
  /\ UNCHANGED <<suspended, compile>>
  /\ UNCHANGED <<constructed, config, algorithm, run>>

\* SchedulingModel.step: the noise prediction handed to self.model.step
StepNoise(noise_pred, guidance_scale) ==
  IF do_classifier_free_guidance
    THEN Combine(Chunk(noise_pred), guidance_scale)
    ELSE noise_pred

\* SchedulingModel.step: the exception raised before self.model.step, if any
StepGuidanceOutcome(noise_pred) ==
  IF ~do_classifier_free_guidance THEN "ok"
  ELSE IF Len(Chunk(noise_pred)) < 2 THEN "IndexError"
  ELSE IF ~Broadcastable(Chunk(noise_pred)[2], Chunk(noise_pred)[1]) THEN "RuntimeError"
  ELSE "ok"

\* a step that leaves self.model._step_index as it was
StepIndexKept(i) == step_index

\* a step that counts on from the index the step before it left
StepIndexNext(i) == step_index + 1

\* the value SchedulingModel.step gives self.model._step_index
StepIndexForced(i) == i

\* SharkSchedulerWrapper.step -> run_step -> SchedulingModel.step.  The index is
\* assigned first; self.model.step then combines the noise prediction and the sample
\* elementwise (batch sizes that do not broadcast raise) and does its own step.
Step(noise_pred, t, sample, guidance_scale, i) ==
  /\ constructed
  /\ adapter = "compiled"
  /\ step_index_set' = TRUE
  /\ LET call == [NoCall EXCEPT !.op = "step", !.noise_pred = noise_pred, !.t = t,
                                !.sample = sample, !.guidance_scale = guidance_scale,
                                !.i = i]
         guided == StepGuidanceOutcome(noise_pred)
     IN
     IF guided # "ok"
       THEN /\ last' = [call EXCEPT !.outcome = guided]
            /\ step_index' = StepIndexForced(i)
       ELSE LET noise == StepNoise(noise_pred, guidance_scale)
                handed == [call EXCEPT !.alg_called = TRUE, !.alg_noise = noise,
                                       !.alg_sample = sample, !.alg_t = t,
                                       !.alg_index = StepIndexForced(i)]
            IN
            IF ~Broadcastable(noise, sample)
              THEN /\ last' = [handed EXCEPT !.outcome = "RuntimeError"]
                   /\ step_index' = StepIndexForced(i)
              ELSE \E alg \in AlgStepOutcomes(StepIndexForced(i)) :
                     IF alg # "ok"
                       THEN /\ last' = [handed EXCEPT !.outcome = alg]
                            /\ step_index' = StepIndexForced(i)
                       ELSE /\ last' = [handed EXCEPT !.outcome = "ok",
                                                      !.out_batch = BLen(noise, sample),
                                                      !.out_dtype = dtype]
                            /\ step_index' = AlgStepIndex(StepIndexForced(i))
  /\ run_ok' = (run_ok /\ last'.outcome = "ok" /\ i = run_steps)
  /\ run_steps' = (IF run_ok' THEN run_steps + 1 ELSE 0)
  /\ UNCHANGED <<suspended, compile>>
  /\ UNCHANGED <<constructed, config, timesteps, init_noise_sigma, advances, initialized>>

\* SharkSchedulerCPUWrapper.initialize
CpuInitialize(sample) ==
  /\ constructed
  /\ adapter = "cpu"
  /\ last' = InitializeResult(sample)
  /\ initialized' = TRUE
  /\ run_ok' = TRUE
  /\ run_steps' = 0
  /\ UNCHANGED <<suspended, compile>>
  /\ UNCHANGED <<constructed, config, algorithm>>

\* SharkSchedulerCPUWrapper.scale_model_input: self.module is the SchedulingModel
\* (it has .initialize and .model), which has no attribute scale_model_input
CpuScaleModelInput(sample, t) ==
  /\ constructed
  /\ adapter = "cpu"
  /\ last' = [NoCall EXCEPT !.op = "prepare", !.outcome = "AttributeError",
                            !.sample = sample, !.i = t]
  /\ UNCHANGED <<suspended, compile>>
  /\ UNCHANGED <<constructed, config, algorithm, run>>

\* SharkSchedulerCPUWrapper.step(latents, t, sample) called as the compiled adapter's
\* step is, with five arguments: the method takes three
CpuStep(noise_pred, t, sample, guidance_scale, i) ==
  /\ constructed
  /\ adapter = "cpu"
  /\ last' = [NoCall EXCEPT !.op = "step", !.outcome = "TypeError",
                            !.noise_pred = noise_pred, !.t = t, !.sample = sample,
                            !.guidance_scale = guidance_scale, !.i = i]
  /\ run_ok' = FALSE
  /\ run_steps' = 0
  /\ UNCHANGED <<suspended, compile>>
  /\ UNCHANGED <<constructed, config, algorithm, initialized>>

\* SharkSchedulerCPUWrapper.step(latents, t, sample) called with its own three
\* arguments: it calls SchedulingModel.step with three, which takes five
CpuStepThree(latents, t, sample) ==
  /\ constructed
  /\ adapter = "cpu"
  /\ last' = [NoCall EXCEPT !.op = "step3", !.outcome = "TypeError",
                            !.noise_pred = latents, !.t = t, !.sample = sample]
  /\ run_ok' = FALSE
  /\ run_steps' = 0
  /\ UNCHANGED <<suspended, compile>>
  /\ UNCHANGED <<constructed, config, algorithm, initialized>>

Next ==
  \/ \E id \in SchedulerIds, hw \in Sizes, bs \in 1..MaxBatch, n \in 1..MaxSteps,
        precision \in Precisions, adv \in {0, 1}, ad \in Adapters :
       ExportSchedulerModel(id, hw, bs, n, precision, adv, ad)
  \/ \E sample \in Latents : Initialize(sample)
  \/ \E sample \in StepSamples(batch_size), t \in PrepareIndexes(Len(timesteps)) :
       PrepareModelInput(sample, t)
  \/ \E noise_pred \in NoisePreds(batch_size), t \in TimestepArgs,
        sample \in StepSamples(batch_size), guidance_scale \in GuidanceScales,
        i \in StepIndexes(Len(timesteps)) :
       Step(noise_pred, t, sample, guidance_scale, i)
  \/ \E sample \in Latents : CpuInitialize(sample)
  \/ \E sample \in StepSamples(batch_size), t \in PrepareIndexes(Len(timesteps)) :
       CpuScaleModelInput(sample, t)
  \/ \E noise_pred \in NoisePreds(batch_size), t \in TimestepArgs,
        sample \in StepSamples(batch_size), guidance_scale \in GuidanceScales,
        i \in StepIndexes(Len(timesteps)) :
       CpuStep(noise_pred, t, sample, guidance_scale, i)
  \/ \E latents \in NoisePreds(batch_size), t \in TimestepArgs,
        sample \in StepSamples(batch_size) :
       CpuStepThree(latents, t, sample)

Spec == Init /\ [][Next]_vars

\* an engine whose do_classifier_free_guidance attribute has been cleared after
\* construction (the branches of initialize, prepare_model_input and step on it)
InitFlag ==
  \/ Init
  \/ /\ constructed = TRUE
     /\ do_classifier_free_guidance = FALSE
     /\ \E hw \in Sizes : height = hw[1] /\ width = hw[2]
     /\ batch_size \in 1..MaxBatch
     /\ dtype \in {"float16", "float32"}
     /\ adapter \in Adapters
     /\ num_inference_steps \in 1..MaxSteps
     /\ timesteps = set_timesteps(num_inference_steps)
     /\ init_noise_sigma = InitNoiseSigma(num_inference_steps)
     /\ step_index_set = FALSE
     /\ step_index = 0
     /\ advances \in {0, 1}
     /\ initialized = FALSE
     /\ run_ok = FALSE
     /\ run_steps = 0
     /\ last = NoCall
     /\ model = 1
     /\ suspended = NoRun
     /\ device = "" /\ target_triple = "" /\ ireec_flags = <<>> /\ safe_name = ""
     /\ flags = <<>>

SpecFlag == InitFlag /\ [][Next]_vars

\* ---------------------------------------------------------------- claims
Compiled == constructed /\ adapter = "compiled"
ValidIndex(i) == 0 <= i /\ i < Len(timesteps)

\* C1 (as stated): after k >= 1 successful step calls with indices 0, 1, ..., k-1
\* since initialize, the algorithm's step index is k-1.
C1_IndexIsLastArgument ==
  (run_ok /\ run_steps >= 1) => (step_index_set /\ step_index = run_steps - 1)

\* C1 (amended): after k >= 1 successful step calls with indices 0, 1, ..., k-1 since
\* initialize, the algorithm's step index is k-1 plus what the algorithm's own step
\* adds to it: k-1 when that step leaves the index alone, k when it advances it by one.
C1_IndexAfterSequentialSteps ==
  (run_ok /\ run_steps >= 1) =>
     (step_index_set /\ step_index = run_steps - 1 + advances)

C1_Witness ==
  /\ run_ok /\ run_steps = 2 /\ last.op = "step" /\ last.outcome = "ok"
  /\ advances = 1 /\ step_index = 2

\* C2: whenever the algorithm's step index has a value, it lies in
\* [0, len(timesteps)).
C2_IndexWithinTimesteps ==
  (constructed /\ step_index_set) => (0 <= step_index /\ step_index < Len(timesteps))

\* C3: prepareInput and step with a stepIndex outside [0, stepCount) fail with an
\* index-out-of-range error.
C3_OutOfRangeIndexFails ==
  (Compiled /\ last.op \in {"prepare", "step"} /\ ~ValidIndex(last.i)) =>
     last.outcome = "IndexError"

\* C4 (as stated): prepareInput on an engine on which initialize has not been called
\* fails with a ConfigurationError.
C4_PrepareBeforeInitializeFails ==
  (Compiled /\ last.op = "prepare" /\ ~initialized) =>
     last.outcome = "ConfigurationError"

\* C4 (amended): prepareInput on an engine on which initialize has not been called,
\* with a stepIndex in [0, stepCount), succeeds: it hands the algorithm the sample
\* duplicated along the batch axis (CFG) and returns timesteps[stepIndex].
C4_PrepareBeforeInitializeSucceeds ==
  (Compiled /\ last.op = "prepare" /\ ~initialized /\ ValidIndex(last.i)) =>
     /\ last.outcome = "ok"
     /\ last.out_t = timesteps[last.i + 1]
     /\ last.alg_called
     /\ last.alg_t = timesteps[last.i + 1]
     /\ do_classifier_free_guidance =>
          /\ Len(last.alg_sample) = 2 * Len(last.sample)
          /\ \A j \in 1..Len(last.sample) :
               /\ last.alg_sample[j] = last.sample[j]
               /\ last.alg_sample[Len(last.sample) + j] = last.sample[j]

C4_Witness ==
  /\ Compiled /\ last.op = "prepare" /\ ~initialized /\ last.outcome = "ok"
  /\ last.i = 1 /\ Len(last.sample) = 2

\* C5: an identifier that is not a key of SCHEDULER_MAP makes the lookup fail: the
\* export raises, no scheduler is returned and no engine is constructed.
C5_UnknownIdentifierFails ==
  (last.op = "export" /\ last.id \notin DOMAIN SCHEDULER_MAP) =>
     /\ last.outcome = "UnboundLocalError"
     /\ last.scheduler = ""
     /\ ~constructed

C5_Witness ==
  last.op = "export" /\ last.id = "Unknown" /\ last.outcome # "ok"

\* the batch sizes of step's tensors disagree with the configuration
ShapeDisagrees(noise_pred, sample) ==
  \/ Len(sample) # batch_size
  \/ Len(noise_pred) #
       (IF do_classifier_free_guidance THEN 2 * batch_size ELSE batch_size)

\* C6: a step call whose tensor batch sizes disagree with the configuration fails
\* with a shape-mismatch error and leaves the algorithm's step index as it was.
C6_ShapeMismatchLeavesState ==
  [][(Compiled /\ last'.op = "step"
        /\ ShapeDisagrees(last'.noise_pred, last'.sample)) =>
       (/\ last'.outcome = "ShapeMismatchError"
        /\ step_index' = step_index
        /\ step_index_set' = step_index_set)]_vars

\* C7: initialize returns stepCount = num_inference_steps (>= 1) and the sample
\* multiplied elementwise by init_noise_sigma.
C7_InitializeResult ==
  (constructed /\ last.op = "initialize") =>
     /\ last.outcome = "ok"
     /\ num_inference_steps >= 1
     /\ last.out_steps = num_inference_steps
     /\ Len(last.out_sample) = Len(last.sample)
     /\ \A j \in 1..Len(last.sample) :
          last.out_sample[j] = last.sample[j] * init_noise_sigma

C7_Witness ==
  /\ constructed /\ last.op = "initialize" /\ last.out_steps = 2
  /\ Len(last.sample) = 2 /\ init_noise_sigma > 1 /\ last.out_sample # last.sample

\* C8: with CFG enabled and a noisePred of batch size 2b, the noise prediction handed
\* to the algorithm's step is u + g * (c - u), u the first b entries, c the last b.
C8_GuidanceCombination ==
  (Compiled /\ last.op = "step" /\ last.alg_called /\ do_classifier_free_guidance
     /\ Len(last.noise_pred) % 2 = 0) =>
     LET b == Len(last.noise_pred) \div 2 IN
     /\ Len(last.alg_noise) = b
     /\ \A j \in 1..b :
          last.alg_noise[j] =
            last.noise_pred[j]
              + last.guidance_scale * (last.noise_pred[b + j] - last.noise_pred[j])

C8_Witness ==
  /\ Compiled /\ last.op = "step" /\ last.alg_called /\ do_classifier_free_guidance
  /\ Len(last.noise_pred) = 4 /\ last.guidance_scale = 2 /\ last.outcome = "ok"

AcceptedCall ==
  \/ last.op = "initialize"
  \/ last.op = "prepare" /\ ValidIndex(last.i)
  \/ /\ last.op = "step" /\ ValidIndex(last.i)
     /\ ~ShapeDisagrees(last.noise_pred, last.sample)

\* C10: every call of the pipeline's sequence (initialize, scale/prepareInput, step
\* with arguments that agree with the configuration) is accepted by both adapters.
C10_AdaptersInterchangeable ==
  (constructed /\ AcceptedCall) => last.outcome = "ok"

\* ---------------------------------------------------------------- pipeline
\* A sampling run as its caller drives it: construct the engine behind the compiled
\* adapter, initialize, then for i = 0 .. stepCount-1: prepare the model input at i,
\* run the network on it, step with the network's prediction at i.

\* the network's forward pass: a prediction of the batch size of its input
ForwardPass(model_input) == {np \in NoisePreds(batch_size) : Len(np) = Len(model_input)}

PipeExport ==
  \E id \in SchedulerIds, hw \in Sizes, bs \in 1..MaxBatch, n \in 1..MaxSteps,
     precision \in Precisions, adv \in {0, 1} :
    ExportSchedulerModel(id, hw, bs, n, precision, adv, "compiled")

PipeInitialize ==
  /\ ~initialized
  /\ \E sample \in {l \in Latents : Len(l) = batch_size} : Initialize(sample)

\* the loop's next iteration i = run_steps begins once initialize or step i-1 returned
PipePrepare ==
  /\ initialized
  /\ last.op \in {"initialize", "step"}
  /\ last.outcome = "ok"
  /\ run_steps < Len(timesteps)
  /\ \E sample \in {x \in StepSamples(batch_size) : Len(x) = batch_size} :
       PrepareModelInput(sample, run_steps)

PipeStep ==
  /\ initialized
  /\ last.op = "prepare"
  /\ last.outcome = "ok"
  /\ \E noise_pred \in ForwardPass(last.alg_sample),
        guidance_scale \in GuidanceScales :
       Step(noise_pred, last.out_t, last.sample, guidance_scale, last.i)

PipeNext == PipeExport \/ PipeInitialize \/ PipePrepare \/ PipeStep

SpecPipeline == Init /\ [][PipeNext]_vars /\ WF_vars(PipeNext)

\* the run has done stepCount iterations, the last call being the final step
PipeDone ==
  /\ run_ok
  /\ run_steps = Len(timesteps)
  /\ last.op = "step"
  /\ last.outcome = "ok"

\* C11: a pipeline run (initialize, then prepareInput, forward pass and step at
\* i = 0 .. stepCount-1) ends after exactly stepCount iterations with no call failing;
\* an iteration begins only when the step before it has returned, and every index
\* handed to prepareInput and step lies in [0, stepCount).
C11_PipelineSafe ==
  /\ last.outcome \in {"none", "ok", "UnboundLocalError"}
  /\ last.outcome = "UnboundLocalError" => last.op = "export"
  /\ last.op \in {"prepare", "step"} => ValidIndex(last.i)
  /\ last.op = "prepare" => (run_ok /\ last.i = run_steps)
  /\ last.op = "step" => (run_ok /\ last.i = run_steps - 1)
  /\ initialized => (run_ok /\ run_steps <= Len(timesteps))
  /\ PipeDone => ~ENABLED PipeNext
\* C11: once the engine is constructed the run reaches its end after stepCount
\* iterations, and in every state on the way no call has failed or left the order.
C11_PipelineTerminates == (constructed ~> PipeDone) /\ []C11_PipelineSafe
C11_Witness == PipeDone /\ run_steps = MaxSteps /\ batch_size = MaxBatch

\* ---------------------------------------------------------------- claims, continued
\* stepCount step calls with the indices 0 .. stepCount-1 have completed
RunCompleted == Compiled /\ run_ok /\ run_steps = Len(timesteps)

\* C12: once stepCount step calls have completed on an engine, every further step
\* call on it is rejected, and an initialize on the used engine leaves no step index
\* of the finished run behind.
C12_UsedEngineRejectsSteps ==
  [][RunCompleted =>
       /\ last'.op = "step" => last'.outcome # "ok"
       /\ last'.op = "initialize" => ~step_index_set']_vars

\* C13: a step call with an index j in [0, stepCount), whatever the indices of the
\* calls before it, enters the algorithm's own step with the step index at j, and a
\* prepareInput at j after it succeeds and returns timesteps[j].
C13_StepEntersAtForcedIndex ==
  (Compiled /\ last.op = "step" /\ ValidIndex(last.i)) =>
     (last.outcome \in {"ok", "IndexError", "RuntimeError"}
        /\ (last.alg_called => last.alg_index = last.i)
        /\ step_index = (IF last.outcome = "ok" THEN last.i + advances ELSE last.i))
\* C13: the step is entered at the forced index, and the prepareInput after it at
\* the same index returns timesteps[j].
C13_ForcedIndex ==
  /\ []C13_StepEntersAtForcedIndex
  /\ [][(Compiled /\ last.op = "step" /\ ValidIndex(last.i) /\ last'.op = "prepare"
           /\ last'.i = last.i) =>
          (last'.outcome = "ok" /\ last'.out_t = timesteps[last.i + 1]
             /\ timesteps = set_timesteps(num_inference_steps))]_vars
\* a prepareInput at index 1 after steps that did not follow 0, 1, ...
C13_Witness ==
  /\ last.op = "prepare" /\ last.outcome = "ok" /\ last.i = 1
  /\ initialized /\ ~run_ok
  /\ step_index_set /\ step_index = 1 + advances

\* C15 (as stated): whatever indices the caller passes, each step call leaves the
\* step index exactly one above where the step call before it left it.
C15_IndexAdvancesByOne ==
  [][(step_index_set /\ last'.op = "step") => step_index' = step_index + 1]_vars

\* C15 (amended): from the end of one successful step call to the end of the next
\* successful one, the step index changes by exactly the difference of the two calls'
\* stepIndex arguments: by one when the caller passes consecutive indices.
C15_IndexFollowsArgument ==
  [][(last.op = "step" /\ last.outcome = "ok"
        /\ last'.op = "step" /\ last'.outcome = "ok") =>
       step_index' - step_index = last'.i - last.i]_vars
\* a step at index 0 that succeeded after earlier steps of the same run
C15_Witness ==
  /\ last.op = "step" /\ last.outcome = "ok" /\ last.i = 0
  /\ initialized /\ ~run_ok
  /\ step_index = advances

\* C16: initialize and prepareInput leave the step index and the timestep sequence as
\* they are, and no operation on a constructed engine changes height, width, batch
\* size, precision or the CFG flag.
C16_Frame ==
  [][/\ last'.op \in {"initialize", "prepare"} =>
          /\ step_index_set' = step_index_set
          /\ step_index' = step_index
          /\ timesteps' = timesteps
     /\ constructed =>
          /\ constructed'
          /\ height' = height /\ width' = width /\ batch_size' = batch_size
          /\ dtype' = dtype
          /\ do_classifier_free_guidance' = do_classifier_free_guidance]_vars
\* an initialize on an engine whose step index a step has set
C16_Witness ==
  /\ last.op = "initialize" /\ last.outcome = "ok"
  /\ step_index_set /\ step_index = 1

\* ---------------------------------------------------------------- two runs
\* The caller holds two sampling runs, each with the engine it constructed, and makes
\* the next call on either of them.

\* both engines hold the same algorithm object
SameAlgorithm == model # 0 /\ suspended.model = model

\* the state of the algorithm object the other run's engine holds
OtherAlgorithm ==
  IF SameAlgorithm
    THEN algorithm
    ELSE <<suspended.timesteps, suspended.init_noise_sigma, suspended.step_index_set,
           suspended.step_index, suspended.advances>>

\* the other run, with the algorithm state its engine would find
OtherRun ==
  [suspended EXCEPT !.timesteps = OtherAlgorithm[1],
                    !.init_noise_sigma = OtherAlgorithm[2],
                    !.step_index_set = OtherAlgorithm[3],
                    !.step_index = OtherAlgorithm[4],
                    !.advances = OtherAlgorithm[5]]

\* the caller turns to its other run; an algorithm object both engines hold stays as
\* the run before left it
Switch ==
  /\ suspended' = ThisRun
  /\ constructed' = suspended.constructed
  /\ height' = suspended.height
  /\ width' = suspended.width
  /\ batch_size' = suspended.batch_size
  /\ do_classifier_free_guidance' = suspended.do_classifier_free_guidance
  /\ dtype' = suspended.dtype
  /\ adapter' = suspended.adapter
  /\ num_inference_steps' = suspended.num_inference_steps
  /\ model' = suspended.model
  /\ initialized' = suspended.initialized
  /\ run_ok' = suspended.run_ok
  /\ run_steps' = suspended.run_steps
  /\ last' = suspended.last
  /\ timesteps' = OtherAlgorithm[1]
  /\ init_noise_sigma' = OtherAlgorithm[2]
  /\ step_index_set' = OtherAlgorithm[3]
  /\ step_index' = OtherAlgorithm[4]
  /\ advances' = OtherAlgorithm[5]
  /\ UNCHANGED compile

\* either run constructs its engine; the runs differ in batch size, step count and
\* algorithm, which is what the calls after construction depend on
TwoExport ==
  \E hw \in Sizes, bs \in 1..MaxBatch, n \in 1..MaxSteps, adv \in {0, 1} :
    ExportSchedulerModel("EulerDiscrete", hw, bs, n, "fp16", adv, "compiled")

TwoNext == Switch \/ TwoExport \/ PipeInitialize \/ PipePrepare \/ PipeStep

SpecTwo == Init /\ [][TwoNext]_vars

\* what a run's step index and returned values are when the run executes alone:
\* functions of its own configuration, its own progress and its own arguments
RunAlone(r) ==
  /\ r.constructed =>
       /\ r.timesteps = set_timesteps(r.num_inference_steps)
       /\ r.init_noise_sigma = r.num_inference_steps + 1
  /\ r.run_steps = 0 => ~r.step_index_set
  /\ r.run_steps >= 1 =>
       (r.step_index_set /\ r.step_index = r.run_steps - 1 + r.advances)
  /\ r.last.op = "initialize" =>
       /\ r.last.outcome = "ok"
       /\ r.last.out_steps = r.num_inference_steps
       /\ r.last.out_sample =
            [j \in 1..Len(r.last.sample) |->
               (r.num_inference_steps + 1) * r.last.sample[j]]
  /\ r.last.op = "prepare" =>
       /\ r.last.outcome = "ok"
       /\ r.last.out_t = r.num_inference_steps - (r.last.i + 1)
  /\ r.last.op = "step" =>
       /\ r.last.outcome = "ok"
       /\ r.last.alg_index = r.last.i

\* C14: with the calls of two runs interleaved in any order, each run's step index
\* and returned values are what they are when the run executes alone, the two engines
\* hold different algorithm objects, and a call on one run leaves the algorithm state
\* of the other run as it was.
C14_RunsAsAlone == RunAlone(ThisRun) /\ RunAlone(OtherRun)
C14_OwnAlgorithm == (constructed /\ suspended.constructed) => model # suspended.model
\* C14: both runs are as alone in every state, and only the caller's turn to the
\* other run changes which algorithm state the other run finds.
C14_Independent ==
  /\ [](C14_RunsAsAlone /\ C14_OwnAlgorithm)
  /\ [][Switch \/ OtherAlgorithm' = OtherAlgorithm]_vars
\* both runs under way, with different step counts, one between prepareInput and step
C14_Witness ==
  /\ constructed /\ suspended.constructed
  /\ num_inference_steps # suspended.num_inference_steps
  /\ last.op = "step" /\ run_steps = 1
  /\ suspended.last.op = "prepare" /\ suspended.run_steps = 1

\* ---------------------------------------------------------------- compile_to_vmfb
\* A compiler flag is modelled by its parts: leading blank, the text before the first
\* "=", whether there is an "=", the text after it.
MaxFlags == 2

Flag(key, value) == [pad |-> FALSE, key |-> key, eq |-> TRUE, value |-> value]
SwitchFlag(key) == [pad |-> FALSE, key |-> key, eq |-> FALSE, value |-> ""]
\* the strings "" and " "
EmptyFlag == [pad |-> FALSE, key |-> "", eq |-> FALSE, value |-> ""]
BlankFlag == [pad |-> TRUE, key |-> "", eq |-> FALSE, value |-> ""]
\* a flag as "a, b".split(",") leaves the second one, with its leading blank
Padded(flag) == [flag EXCEPT !.pad = TRUE]

\* flag.strip().split("=")[0]
StrippedKey(flag) == <<FALSE, flag.key>>
\* default.split("=")[0]
RawKey(default) == <<default.pad, default.key>>

Devices == {"cpu", "vulkan", "rocm", "cuda", "metal"}
TargetTriples == {"", "gfx942", "sm_80"}
SafeNames == {"model", "unet", "clip", "vae"}
UserFlags ==
  {Flag("--iree-opt-const-eval", "true"),
   Padded(Flag("--iree-hal-target-backends", "llvm-cpu")),
   SwitchFlag("--iree-vm-target-truncate-unsupported-floats"),
   Flag("--iree-opt-data-tiling", "true"),
   EmptyFlag, BlankFlag}
UserFlagLists == UNION {[1..m -> UserFlags] : m \in 0..MaxFlags}

\* amdgpu_flags, by the part of safe_name that selects them
amdgpu_flags(name) ==
  CASE name = "unet" ->
         <<Flag("--iree-global-opt-propagate-transposes", "true"),
           Flag("--iree-opt-outer-dim-concat", "true"),
           SwitchFlag("--iree-vm-target-truncate-unsupported-floats"),
           Flag("--iree-llvmgpu-enable-prefetch", "true"),
           Flag("--iree-opt-data-tiling", "false"),
           Flag("--iree-codegen-gpu-native-math-precision", "true"),
           Flag("--iree-preprocessing-pass-pipeline",
                "builtin.module(iree-preprocessing-transpose-convolution-pipeline, iree-preprocessing-pad-to-intrinsics)")>>
    [] name = "vae" -> <<Flag("--verify", "false")>>
    [] OTHER -> <<>>

\* the flags compile_to_vmfb starts from, by device
DefaultFlags(dev, triple) ==
  CASE dev = "cpu" ->
         <<Flag("--iree-llvmcpu-target-triple", triple),
           Flag("--iree-llvmcpu-target-cpu-features", "host"),
           Flag("--iree-llvmcpu-fail-on-out-of-bounds-stack-allocation", "false"),
           Flag("--iree-llvmcpu-distribution-size", "32"),
           Flag("--iree-opt-const-eval", "false")>>
    [] dev = "vulkan" ->
         <<Flag("--iree-hal-target-backends", "vulkan-spirv"),
           Flag("--iree-vulkan-target-triple", triple),
           Flag("--iree-stream-resource-max-allocation-size", "4294967296"),
           Flag("--iree-stream-resource-index-bits", "64"),
           Flag("--iree-vm-target-index-bits", "64"),
           Flag("--iree-flow-inline-constants-max-byte-length", "1")>>
    [] dev = "rocm" ->
         <<Flag("--iree-hal-target-backends", "rocm"),
           Flag("--iree-rocm-target-chip", triple),
           Flag("--iree-opt-const-eval", "false")>>
         \o (IF triple = "gfx942"
               THEN <<Flag("--iree-rocm-waves-per-eu", "2")>> ELSE <<>>)
    [] dev = "cuda" ->
         <<Flag("--iree-hal-target-backends", "cuda"),
           Flag("--iree-hal-cuda-llvm-target-arch", triple),
           SwitchFlag("--iree-vm-target-truncate-unsupported-floats")>>
    [] OTHER -> <<>>

\* the target backend the device names
TargetBackend(dev) ==
  CASE dev = "cpu" -> "llvm-cpu"
    [] dev = "vulkan" -> "vulkan-spirv"
    [] OTHER -> dev

\* the user flag's key is the key of an entry of the list
Overrides(fl, flag) == \E idx \in 1..Len(fl) : RawKey(fl[idx]) = StrippedKey(flag)

\* one round of the merge loop: the flag replaces every entry of its key, and is
\* appended unless it is "" or " " (the test reads the loop variable, which still
\* holds the flag after ireec_flags[i] has been set to "")
MergeOne(fl, flag) ==
  LET replaced == [idx \in 1..Len(fl) |->
                     IF RawKey(fl[idx]) = StrippedKey(flag) THEN flag ELSE fl[idx]]
  IN IF flag \notin {EmptyFlag, BlankFlag} THEN Append(replaced, flag) ELSE replaced

\* the merge loop from its i-th round on: the flags and the user's list it leaves
RECURSIVE MergeFrom(_, _, _)
MergeFrom(fl, user, i) ==
  IF i > Len(user)
    THEN [flags |-> fl, ireec_flags |-> user]
    ELSE MergeFrom(MergeOne(fl, user[i]),
                   [user EXCEPT ![i] = IF Overrides(fl, user[i]) THEN EmptyFlag ELSE @],
                   i + 1)

\* the verified flags appended for the amdgpu targets
TargetFlags(triple, name) ==
  IF triple \in {"gfx940", "gfx941", "gfx942", "gfx1100", "gfx90a"}
    THEN amdgpu_flags(name) \o amdgpu_flags("all")
    ELSE <<>>

\* compile_to_vmfb up to the call of the compiler, which gets extra_args = flags
\* (attn_spec and mlir_source at their defaults)
CompileToVmfb ==
  /\ last.op = "none"
  /\ LET call == [NoCall EXCEPT !.op = "compile_to_vmfb", !.device = device,
                                !.target_triple = target_triple,
                                !.ireec_flags = ireec_flags]
     IN
     IF target_triple = "" /\ device # "cpu"
       THEN /\ last' = [call EXCEPT !.outcome = "ValueError"]
            /\ UNCHANGED compile
       ELSE LET triple == IF target_triple = "" THEN "x86_64-linux-gnu"
                          ELSE target_triple
                merged == MergeFrom(DefaultFlags(device, triple), ireec_flags, 1)
            IN /\ target_triple' = triple
               /\ device' = TargetBackend(device)
               /\ ireec_flags' = merged.ireec_flags
               /\ flags' = merged.flags \o TargetFlags(triple, safe_name)
               /\ last' = [call EXCEPT !.outcome = "ok"]
               /\ UNCHANGED safe_name
  /\ UNCHANGED <<constructed, config, algorithm, run, suspended>>

\* a call of compile_to_vmfb with its arguments
InitCompile ==
  /\ constructed = FALSE
  /\ height = 0 /\ width = 0 /\ batch_size = 0
  /\ do_classifier_free_guidance = TRUE
  /\ dtype = ""
  /\ adapter = ""
  /\ num_inference_steps = 0
  /\ timesteps = <<>>
  /\ init_noise_sigma = 0
  /\ step_index_set = FALSE
  /\ step_index = 0
  /\ advances = 0
  /\ initialized = FALSE
  /\ run_ok = FALSE
  /\ run_steps = 0
  /\ last = NoCall
  /\ model = 0
  /\ suspended = NoRun
  /\ device \in Devices
  /\ target_triple \in TargetTriples
  /\ ireec_flags \in UserFlagLists
  /\ safe_name \in SafeNames
  /\ flags = <<>>

CompileNext == CompileToVmfb

SpecCompile == InitCompile /\ [][CompileNext]_vars

\* the entries of the final flag list whose key is k
WithKey(k) == {j \in 1..Len(flags) : flags[j].key = k}

\* C17: after compile_to_vmfb has merged the flags, every key of a user flag that is
\* also the key of a default flag of the device is in the final list exactly once,
\* with a value the user gave for it.
C17_OverrideOnce ==
  (last.op = "compile_to_vmfb" /\ last.outcome = "ok") =>
    \A i \in 1..Len(last.ireec_flags) :
      LET user == last.ireec_flags[i]
          defaults == DefaultFlags(last.device, target_triple)
      IN (user \notin {EmptyFlag, BlankFlag}
            /\ \E d \in 1..Len(defaults) : defaults[d].key = user.key) =>
           /\ Cardinality(WithKey(user.key)) = 1
           /\ \A j \in WithKey(user.key) :
                \E m \in 1..Len(last.ireec_flags) :
                  /\ last.ireec_flags[m].key = user.key
                  /\ last.ireec_flags[m].value = flags[j].value

====
